---- MODULE Spec2Model ----
(***************************************************************************)
(* A model of the urlblocks / urlstring URL value types.                   *)
(*                                                                         *)
(* A text is a sequence of one-character strings, so that splitting,       *)
(* joining, searching and slicing are computed on the characters as the    *)
(* Python code computes them on str.  The absent value (Python None) is    *)
(* the one-element sequence None, which no text equals because every       *)
(* element of a text is a single character.                                *)
(***************************************************************************)
EXTENDS Integers, Sequences, FiniteSets, TLC

VARIABLES self, op, arg, out, steps

vars == <<self, op, arg, out, steps>>

(* ------------------------------------------------------------------ *)
(* Bounds of the model.                                                *)
(* ------------------------------------------------------------------ *)

\* Number of derivation calls chained after a construction.
MaxSteps == 2

(* ------------------------------------------------------------------ *)
(* Text helpers (Python str operations).                               *)
(* ------------------------------------------------------------------ *)

\* F applied to the value of v, v being evaluated once.
Let(v, F(_)) == CHOOSE r \in { F(w) : w \in {v} } : TRUE

None == <<"None">>

NoPort == -1

Has(s, c) == \E i \in 1..Len(s) : s[i] = c

\* str.find(c) + 1: position of the first c, 0 when there is none.
IndexOf(text, c) ==
    Let(text, LAMBDA s :
        IF Has(s, c)
        THEN CHOOSE i \in 1..Len(s) : s[i] = c /\ \A j \in 1..(i - 1) : s[j] # c
        ELSE 0)

\* str.rfind(c) + 1.
LastIndexOf(text, c) ==
    Let(text, LAMBDA s :
        IF Has(s, c)
        THEN CHOOSE i \in 1..Len(s) : s[i] = c /\ \A j \in (i + 1)..Len(s) : s[j] # c
        ELSE 0)

From(text, i) == Let(text, LAMBDA s : SubSeq(s, i, Len(s)))

Upto(s, i) == SubSeq(s, 1, i)

StartsWith(text, p) ==
    Let(text, LAMBDA s : Len(s) >= Len(p) /\ SubSeq(s, 1, Len(p)) = p)

EndsWith(text, p) ==
    Let(text, LAMBDA s : Len(s) >= Len(p) /\ SubSeq(s, Len(s) - Len(p) + 1, Len(s)) = p)

\* str.find(old) + 1 for a non-empty old.
FindSub(text, sub) ==
    Let(<<text, sub>>, LAMBDA a :
    Let({ i \in 1..(Len(a[1]) - Len(a[2]) + 1) : SubSeq(a[1], i, i + Len(a[2]) - 1) = a[2] },
        LAMBDA hits :
        IF hits = {} THEN 0 ELSE CHOOSE i \in hits : \A j \in hits : i <= j))

\* str.replace(old, new, 1): the leftmost occurrence only.
ReplaceFirst(text, old, new) ==
    Let(<<text, old>>, LAMBDA a :
    Let(FindSub(a[1], a[2]), LAMBDA i :
        IF i = 0 THEN a[1]
        ELSE SubSeq(a[1], 1, i - 1) \o new \o From(a[1], i + Len(a[2]))))

RECURSIVE Split(_, _)
\* str.split(c): always at least one part.
Split(text, c) ==
    Let(text, LAMBDA s :
    Let(IndexOf(s, c), LAMBDA i :
        IF i = 0 THEN <<s>>
        ELSE <<SubSeq(s, 1, i - 1)>> \o Split(From(s, i + 1), c)))

RECURSIVE Join(_, _)
\* c.join(parts)
Join(list, c) ==
    Let(list, LAMBDA parts :
        IF Len(parts) = 0 THEN <<>>
        ELSE IF Len(parts) = 1 THEN parts[1]
        ELSE parts[1] \o <<c>> \o Join(Tail(parts), c))

LowerLetters ==
    <<"a", "b", "c", "d", "e", "f", "g", "h", "i", "j", "k", "l", "m",
      "n", "o", "p", "q", "r", "s", "t", "u", "v", "w", "x", "y", "z">>

UpperLetters ==
    <<"A", "B", "C", "D", "E", "F", "G", "H", "I", "J", "K", "L", "M",
      "N", "O", "P", "Q", "R", "S", "T", "U", "V", "W", "X", "Y", "Z">>

Digits == <<"0", "1", "2", "3", "4", "5", "6", "7", "8", "9">>

Range(f) == { f[i] : i \in DOMAIN f }

IsAlpha(c) == c \in Range(LowerLetters) \cup Range(UpperLetters)

IsDigit(c) == c \in Range(Digits)

LowerChar(c) ==
    IF c \in Range(UpperLetters)
    THEN LowerLetters[CHOOSE i \in DOMAIN UpperLetters : UpperLetters[i] = c]
    ELSE c

\* str.lower()
Lower(text) == Let(text, LAMBDA s : [i \in 1..Len(s) |-> LowerChar(s[i])])

DigitValue(c) == (CHOOSE i \in DOMAIN Digits : Digits[i] = c) - 1

IsInt(text) == Let(text, LAMBDA s : Len(s) > 0 /\ \A i \in 1..Len(s) : IsDigit(s[i]))

RECURSIVE ParseInt(_)
\* int(s) for a text of decimal digits.
ParseInt(text) ==
    Let(text, LAMBDA s :
        IF Len(s) = 0 THEN 0
        ELSE 10 * ParseInt(SubSeq(s, 1, Len(s) - 1)) + DigitValue(s[Len(s)]))

RECURSIVE IntToStr(_)
\* '%d' % n for n >= 0.
IntToStr(n) ==
    IF n < 10 THEN <<Digits[n + 1]>>
    ELSE IntToStr(n \div 10) \o <<Digits[(n % 10) + 1]>>

(* ------------------------------------------------------------------ *)
(* The generic splitter / joiner (urlparse.urlsplit, urlunsplit).      *)
(* ------------------------------------------------------------------ *)

SchemeChars == Range(LowerLetters) \cup Range(UpperLetters) \cup Range(Digits) \cup {"+", "-", "."}

UsesNetloc ==
    { <<>>,
      <<"f", "t", "p">>,
      <<"h", "t", "t", "p">>,
      <<"g", "o", "p", "h", "e", "r">>,
      <<"n", "n", "t", "p">>,
      <<"t", "e", "l", "n", "e", "t">>,
      <<"i", "m", "a", "p">>,
      <<"w", "a", "i", "s">>,
      <<"f", "i", "l", "e">>,
      <<"m", "m", "s">>,
      <<"h", "t", "t", "p", "s">>,
      <<"s", "h", "t", "t", "p">>,
      <<"s", "n", "e", "w", "s">>,
      <<"p", "r", "o", "s", "p", "e", "r", "o">>,
      <<"r", "t", "s", "p">>,
      <<"r", "t", "s", "p", "s">>,
      <<"r", "t", "s", "p", "u">>,
      <<"r", "s", "y", "n", "c">>,
      <<"s", "v", "n">>,
      <<"s", "v", "n", "+", "s", "s", "h">>,
      <<"s", "f", "t", "p">>,
      <<"n", "f", "s">>,
      <<"g", "i", "t">>,
      <<"g", "i", "t", "+", "s", "s", "h">>,
      <<"w", "s">>,
      <<"w", "s", "s">> }

\* Position of the ':' ending the scheme, 0 when the text has no scheme.
SchemeColon(text) ==
    Let(text, LAMBDA s :
    Let(IndexOf(s, ":"), LAMBDA i :
        IF i > 1 /\ IsAlpha(s[1]) /\ \A k \in 1..(i - 1) : s[k] \in SchemeChars
        THEN i ELSE 0))

\* First position >= start of one of '/', '?', '#'; Len(s) + 1 when none.
NetlocEnd(text, start) ==
    Let(text, LAMBDA s :
    Let({ i \in start..Len(s) : s[i] \in {"/", "?", "#"} }, LAMBDA hits :
        IF hits = {} THEN Len(s) + 1 ELSE CHOOSE i \in hits : \A j \in hits : i <= j))

\* The scheme is cut off and lower-cased, then the netloc after '//', then
\* the fragment after the first '#', then the query after the first '?'.
urlsplit(url) ==
    Let(url, LAMBDA s :
    Let(SchemeColon(s), LAMBDA i :
    Let(IF i > 0 THEN From(s, i + 1) ELSE s, LAMBDA r1 :
    Let(StartsWith(r1, <<"/", "/">>), LAMBDA hasNet :
    Let(NetlocEnd(r1, 3), LAMBDA d :
    Let(IF hasNet THEN From(r1, d) ELSE r1, LAMBDA r2 :
    Let(IndexOf(r2, "#"), LAMBDA h :
    Let(IF h > 0 THEN SubSeq(r2, 1, h - 1) ELSE r2, LAMBDA r3 :
    Let(IndexOf(r3, "?"), LAMBDA q :
        [scheme   |-> IF i > 0 THEN Lower(SubSeq(s, 1, i - 1)) ELSE <<>>,
         netloc   |-> IF hasNet THEN SubSeq(r1, 3, d - 1) ELSE <<>>,
         path     |-> IF q > 0 THEN SubSeq(r3, 1, q - 1) ELSE r3,
         query    |-> IF q > 0 THEN From(r3, q + 1) ELSE <<>>,
         fragment |-> IF h > 0 THEN From(r2, h + 1) ELSE <<>>])))))))))

urlunsplit(components) ==
    Let(components, LAMBDA c :
    Let(IF c.netloc # <<>>
           \/ (c.scheme # <<>> /\ c.scheme \in UsesNetloc
               /\ ~StartsWith(c.path, <<"/", "/">>))
        THEN <<"/", "/">> \o c.netloc
             \o (IF c.path # <<>> /\ c.path[1] # "/" THEN <<"/">> ELSE <<>>)
             \o c.path
        ELSE c.path, LAMBDA u1 :
    Let(IF c.scheme # <<>> THEN c.scheme \o <<":">> \o u1 ELSE u1, LAMBDA u2 :
    Let(IF c.query # <<>> THEN u2 \o <<"?">> \o c.query ELSE u2, LAMBDA u3 :
        IF c.fragment # <<>> THEN u3 \o <<"#">> \o c.fragment ELSE u3))))

(* ------------------------------------------------------------------ *)
(* PercentCodec (path_encode / path_decode).                           *)
(* ------------------------------------------------------------------ *)

Unreserved == Range(LowerLetters) \cup Range(UpperLetters) \cup Range(Digits) \cup {"_", ".", "-", "~"}

\* The characters of the model that have an escape, with their two hex digits.
HexTable ==
    { <<" ", "2", "0">>, <<"#", "2", "3">>, <<"%", "2", "5">>, <<"&", "2", "6">>,
      <<"+", "2", "B">>, <<"/", "2", "F">>, <<":", "3", "A">>, <<";", "3", "B">>,
      <<"=", "3", "D">>, <<"?", "3", "F">>, <<"@", "4", "0">>,
      <<"C3", "C", "3">>, <<"A9", "A", "9">> }

EncodeChar(c, safe) ==
    IF c \in Unreserved \cup safe \/ ~(\E t \in HexTable : t[1] = c)
    THEN <<c>>
    ELSE LET t == CHOOSE t \in HexTable : t[1] = c IN <<"%", t[2], t[3]>>

RECURSIVE path_encode(_, _)
path_encode(text, safe) ==
    Let(text, LAMBDA s :
        IF Len(s) = 0 THEN <<>>
        ELSE EncodeChar(s[1], safe) \o path_encode(Tail(s), safe))

RECURSIVE path_decode(_)
\* A '%' not followed by two hex digits of a known character passes through.
path_decode(text) ==
    Let(text, LAMBDA s :
        IF Len(s) = 0 THEN <<>>
        ELSE IF s[1] = "%" /\ Len(s) >= 3 /\ (\E t \in HexTable : t[2] = s[2] /\ t[3] = s[3])
        THEN <<(CHOOSE t \in HexTable : t[2] = s[2] /\ t[3] = s[3])[1]>> \o path_decode(From(s, 4))
        ELSE <<s[1]>> \o path_decode(Tail(s)))

\* The safe set path_encode uses when the caller gives none.
DefaultSafe == {"/"}

(* ------------------------------------------------------------------ *)
(* Netloc: userinfo@host:port.                                         *)
(* ------------------------------------------------------------------ *)

\* The userinfo ends at the last '@' and splits on its first ':'; the port
\* is what follows the last ':' of the rest when it is all digits.
NetlocParse(netloc) ==
    Let(netloc, LAMBDA n :
    Let(LastIndexOf(n, "@"), LAMBDA at :
    Let(IF at = 0 THEN <<>> ELSE SubSeq(n, 1, at - 1), LAMBDA userinfo :
    Let(IF at = 0 THEN n ELSE From(n, at + 1), LAMBDA hostport :
    Let(IndexOf(userinfo, ":"), LAMBDA col :
    Let(LastIndexOf(hostport, ":"), LAMBDA pc :
    Let(From(hostport, pc + 1), LAMBDA tail :
    Let(pc > 0 /\ IsInt(tail), LAMBDA hasPort :
        [username |-> IF at = 0 THEN None
                      ELSE IF col = 0 THEN userinfo ELSE SubSeq(userinfo, 1, col - 1),
         password |-> IF at = 0 \/ col = 0 THEN None ELSE From(userinfo, col + 1),
         hostname |-> IF hasPort THEN SubSeq(hostport, 1, pc - 1) ELSE hostport,
         port     |-> IF hasPort THEN ParseInt(tail) ELSE NoPort]))))))))

NetlocBuild(fields) ==
    Let(fields, LAMBDA f :
        (IF f.username = None THEN <<>>
         ELSE f.username
              \o (IF f.password = None THEN <<>> ELSE <<":">> \o f.password)
              \o <<"@">>)
        \o f.hostname
        \o (IF f.port = NoPort THEN <<>> ELSE <<":">> \o IntToStr(f.port)))

Netloc_with_username(n, u) == NetlocBuild([NetlocParse(n) EXCEPT !.username = u])

Netloc_without_username(n) ==
    NetlocBuild([NetlocParse(n) EXCEPT !.username = None, !.password = None])

Netloc_with_password(n, p) == NetlocBuild([NetlocParse(n) EXCEPT !.password = p])

Netloc_without_password(n) == NetlocBuild([NetlocParse(n) EXCEPT !.password = None])

Netloc_with_hostname(n, h) == NetlocBuild([NetlocParse(n) EXCEPT !.hostname = h])

Netloc_with_port(n, p) == NetlocBuild([NetlocParse(n) EXCEPT !.port = p])

Netloc_without_port(n) == NetlocBuild([NetlocParse(n) EXCEPT !.port = NoPort])

\* with_auth(user) clears the password; with_auth(user, pass) sets both.
Netloc_with_auth(n, u, p) ==
    NetlocBuild([NetlocParse(n) EXCEPT !.username = u, !.password = p])

Netloc_without_auth(n) ==
    NetlocBuild([NetlocParse(n) EXCEPT !.username = None, !.password = None])

\* host.split('.'), and no label at all for an empty host.
Domains(hostname) ==
    Let(hostname, LAMBDA host : IF host = <<>> THEN <<>> ELSE Split(host, "."))

Netloc_domains(n) == Domains(NetlocParse(n).hostname)

Netloc_add_subdomain(netloc, label) ==
    Let(netloc, LAMBDA n :
        Netloc_with_hostname(n, label \o <<".">> \o NetlocParse(n).hostname))

Netloc_remove_subdomain(netloc) ==
    Let(netloc, LAMBDA n :
    Let(Netloc_domains(n), LAMBDA d :
        IF Len(d) - 1 >= 2 THEN Netloc_with_hostname(n, Join(Tail(d), ".")) ELSE n))

\* level counts from the end: 0 is the top-level label, 1 the second-level one.
Netloc_with_domain(netloc, value, level) ==
    Let(netloc, LAMBDA n :
    Let(Netloc_domains(n), LAMBDA d :
        Netloc_with_hostname(n, Join([d EXCEPT ![Len(d) - level] = value], "."))))

DOMAIN_LEVEL_TOP == 0

DOMAIN_LEVEL_SECOND == 1

(* ------------------------------------------------------------------ *)
(* URLPath.                                                            *)
(* ------------------------------------------------------------------ *)

Path_is_leaf(path) == Let(path, LAMBDA p : p # <<>> /\ p[Len(p)] # "/")

\* The path up to and including its last '/'.
DirPrefix(path) == Let(path, LAMBDA p : Upto(p, LastIndexOf(p, "/")))

RECURSIVE Collapse(_, _)
\* Left to right over the segments: '.' is dropped, '..' is dropped together
\* with the segment kept last (alone when none is kept).
Collapse(segments, keptSoFar) ==
    Let(segments, LAMBDA segs :
    Let(keptSoFar, LAMBDA kept :
        IF Len(segs) = 0 THEN kept
        ELSE IF segs[1] = <<".">> THEN Collapse(Tail(segs), kept)
        ELSE IF segs[1] = <<".", ".">>
             THEN Collapse(Tail(segs), IF Len(kept) = 0 THEN kept ELSE Upto(kept, Len(kept) - 1))
        ELSE Collapse(Tail(segs), Append(kept, segs[1]))))

\* The leading '/' of an absolute path is the root, not a segment: it is
\* put aside before the segments are collapsed and put back after.
Path_relative(path, reference) ==
    Let(reference, LAMBDA other :
        IF StartsWith(other, <<"/">>) THEN other
        ELSE
    Let(DirPrefix(path) \o other, LAMBDA merged :
    Let(StartsWith(merged, <<"/">>), LAMBDA abs :
    Let(Split(IF abs THEN Tail(merged) ELSE merged, "/"), LAMBDA segs :
    Let(Collapse(segs, <<>>), LAMBDA kept :
        (IF abs THEN <<"/">> ELSE <<>>)
        \o Join(IF segs[Len(segs)] \in {<<".">>, <<".", ".">>}
                THEN Append(kept, <<>>) ELSE kept, "/"))))))

Path_parent(path) ==
    Let(path, LAMBDA p :
        IF Path_is_leaf(p) THEN DirPrefix(p)
        ELSE IF p = <<>> \/ p = <<"/">> THEN <<"/">>
        ELSE DirPrefix(Upto(p, Len(p) - 1)))

\* Naive concatenation with exactly one separating '/'.
Path_add(path, partial) ==
    Let(path, LAMBDA p :
        IF EndsWith(p, <<"/">>) THEN p \o partial ELSE p \o <<"/">> \o partial)

Path_add_segment(p, name) == Path_add(p, name)

(* ------------------------------------------------------------------ *)
(* QueryString: an ordered sequence of <<name, value>> pairs.          *)
(* ------------------------------------------------------------------ *)

QueryPair(text) ==
    Let(text, LAMBDA part :
    Let(IndexOf(part, "="), LAMBDA e :
        IF e = 0 THEN <<path_decode(part), <<>>>>
        ELSE <<path_decode(SubSeq(part, 1, e - 1)), path_decode(From(part, e + 1))>>))

Query_list(query) ==
    Let(query, LAMBDA q :
        IF q = <<>> THEN <<>>
        ELSE Let(Split(q, "&"), LAMBDA parts : [i \in 1..Len(parts) |-> QueryPair(parts[i])]))

Query_build(list) ==
    Let(list, LAMBDA pairs :
        Join([i \in 1..Len(pairs) |->
                path_encode(pairs[i][1], {}) \o <<"=">> \o path_encode(pairs[i][2], {})], "&"))

RECURSIVE DictOf(_)
\* dict(pairs): a later pair replaces an earlier one of the same name.
DictOf(list) ==
    Let(list, LAMBDA pairs :
        IF Len(pairs) = 0 THEN [n \in {} |-> <<>>]
        ELSE Let(DictOf(SubSeq(pairs, 1, Len(pairs) - 1)), LAMBDA d :
             Let(pairs[Len(pairs)], LAMBDA last :
                 [n \in DOMAIN d \cup {last[1]} |-> IF n = last[1] THEN last[2] ELSE d[n]])))

RECURSIVE MultiDictOf(_)
\* Each name with the values of its pairs, a value appended per pair.
MultiDictOf(list) ==
    Let(list, LAMBDA pairs :
        IF Len(pairs) = 0 THEN [n \in {} |-> <<>>]
        ELSE Let(MultiDictOf(SubSeq(pairs, 1, Len(pairs) - 1)), LAMBDA d :
             Let(pairs[Len(pairs)], LAMBDA last :
                 [n \in DOMAIN d \cup {last[1]} |->
                     IF n = last[1]
                     THEN (IF n \in DOMAIN d THEN d[n] ELSE <<>>) \o <<last[2]>>
                     ELSE d[n]])))

Query_dict(q) == DictOf(Query_list(q))

Query_multi_dict(q) == MultiDictOf(Query_list(q))

RECURSIVE Without(_, _)
\* The pairs whose name is not in names, in order.
Without(list, names) ==
    Let(list, LAMBDA pairs :
        IF Len(pairs) = 0 THEN <<>>
        ELSE IF pairs[1][1] \in names THEN Without(Tail(pairs), names)
        ELSE <<pairs[1]>> \o Without(Tail(pairs), names))

Query_add_param(q, name, value) == Query_build(Append(Query_list(q), <<name, value>>))

Query_set_param(q, name, value) ==
    Query_build(Append(Without(Query_list(q), {name}), <<name, value>>))

Query_del_params(q, names) == Query_build(Without(Query_list(q), names))

Query_del_param(q, name) == Query_del_params(q, {name})

(* ------------------------------------------------------------------ *)
(* BaseURL: the methods shared by URL and _RelativeURL, on the text.   *)
(* Each returns the text handed to type(self)(...).                    *)
(* ------------------------------------------------------------------ *)

Base_scheme(s) == urlsplit(s).scheme

Base_netloc(s) == urlsplit(s).netloc

Base_path(s) == urlsplit(s).path

Base_query(s) == urlsplit(s).query

Base_fragment(s) == path_decode(urlsplit(s).fragment)

Base_username(s) == NetlocParse(Base_netloc(s)).username

Base_password(s) == NetlocParse(Base_netloc(s)).password

Base_hostname(s) == NetlocParse(Base_netloc(s)).hostname

Base_port(s) == NetlocParse(Base_netloc(s)).port

Base_domains(s) == Netloc_domains(Base_netloc(s))

Base_with_scheme(s, v) == urlunsplit([urlsplit(s) EXCEPT !.scheme = v])

Base_with_netloc(s, v) == urlunsplit([urlsplit(s) EXCEPT !.netloc = v])

\* Base_with_path that also drops the query.
Base_with_path_ClearsQuery(s, v) == urlunsplit([urlsplit(s) EXCEPT !.path = v, !.query = <<>>])

Base_with_path(s, v) == urlunsplit([urlsplit(s) EXCEPT !.path = v])

Base_with_query(s, v) == urlunsplit([urlsplit(s) EXCEPT !.query = v])

Base_without_query(s) == urlunsplit([urlsplit(s) EXCEPT !.query = <<>>])

\* Base_with_fragment that writes the fragment as given, without escaping it.
Base_with_fragment_Unencoded(s, v) == urlunsplit([urlsplit(s) EXCEPT !.fragment = v])

Base_with_fragment(s, v) ==
    urlunsplit([urlsplit(s) EXCEPT !.fragment = path_encode(v, DefaultSafe)])

\* Base_without_fragment that rejoins the text with its fragment.
Base_without_fragment_Kept(s) == urlunsplit(urlsplit(s))

Base_without_fragment(s) == urlunsplit([urlsplit(s) EXCEPT !.fragment = <<>>])

(* ------------------------------------------------------------------ *)
(* URL: the validating top-level type.                                 *)
(* ------------------------------------------------------------------ *)

Value(kind, text) == [kind |-> kind, text |-> text, err |-> "ok"]

Failure(err) == [kind |-> "error", text |-> <<>>, err |-> err]

\* URL_check accepting a hostname of a single label.
URL_check_OneLabel(text) ==
    Let(text, LAMBDA s :
        IF s = <<>> THEN "IsEmpty"
        ELSE IF Base_scheme(s) = <<>> THEN "SchemeDoesNotExist"
        ELSE IF Base_hostname(s) = <<>> \/ Len(Base_domains(s)) < 1 THEN "HostnameDoesNotExist"
        ELSE "ok")

\* The first failing check of URL.__new__, "ok" when all pass.
URL_check(text) ==
    Let(text, LAMBDA s :
        IF s = <<>> THEN "IsEmpty"
        ELSE IF Base_scheme(s) = <<>> THEN "SchemeDoesNotExist"
        ELSE IF Base_hostname(s) = <<>> \/ Len(Base_domains(s)) < 2 THEN "HostnameDoesNotExist"
        ELSE "ok")

\* URL_new without the checks.
URL_new_Unchecked(text) == Value("URL", text)

\* URL_new that keeps the text as the joiner writes its split components.
URL_new_Rejoined(text) ==
    Let(urlunsplit(urlsplit(text)), LAMBDA s :
    Let(URL_check(s), LAMBDA e : IF e = "ok" THEN Value("URL", s) ELSE Failure(e)))

URL_new(text) ==
    Let(text, LAMBDA s :
    Let(URL_check(s), LAMBDA e : IF e = "ok" THEN Value("URL", s) ELSE Failure(e)))

URL_with_scheme(s, v) == URL_new(Base_with_scheme(s, v))

URL_with_netloc(s, v) == URL_new(Base_with_netloc(s, v))

URL_with_username(s, v) == URL_with_netloc(s, Netloc_with_username(Base_netloc(s), v))

\* URL_without_username that drops the port as well.
URL_without_username_DropsPort(s) ==
    URL_with_netloc(s, Netloc_without_port(Netloc_without_username(Base_netloc(s))))

URL_without_username(s) == URL_with_netloc(s, Netloc_without_username(Base_netloc(s)))

URL_with_password(s, v) == URL_with_netloc(s, Netloc_with_password(Base_netloc(s), v))

URL_without_password(s) == URL_with_netloc(s, Netloc_without_password(Base_netloc(s)))

URL_with_hostname(s, v) == URL_with_netloc(s, Netloc_with_hostname(Base_netloc(s), v))

URL_with_port(s, n) == URL_with_netloc(s, Netloc_with_port(Base_netloc(s), n))

URL_without_port(s) == URL_with_netloc(s, Netloc_without_port(Base_netloc(s)))

URL_with_auth(s, u, p) == URL_with_netloc(s, Netloc_with_auth(Base_netloc(s), u, p))

URL_without_auth(s) == URL_with_netloc(s, Netloc_without_auth(Base_netloc(s)))

URL_with_path(s, v) == URL_new(Base_with_path(s, v))

URL_root(s) == URL_with_path(s, <<"/">>)

URL_parent(s) == URL_with_path(s, Path_parent(Base_path(s)))

URL_add_path_segment(s, seg) == URL_with_path(s, Path_add_segment(Base_path(s), seg))

URL_add_path(s, partial) == URL_with_path(s, Path_add(Base_path(s), partial))

URL_with_query(s, v) == URL_new(Base_with_query(s, v))

URL_without_query(s) == URL_new(Base_without_query(s))

URL_add_query_param(s, n, v) == URL_with_query(s, Query_add_param(Base_query(s), n, v))

\* URL_set_query_param that keeps the existing pairs of the name.
URL_set_query_param_Adds(s, n, v) == URL_with_query(s, Query_add_param(Base_query(s), n, v))

URL_set_query_param(s, n, v) == URL_with_query(s, Query_set_param(Base_query(s), n, v))

\* URL_del_query_param that removes only the first pair of the name.
URL_del_query_param_FirstOnly(s, n) ==
    LET l == Query_list(Base_query(s))
        at == { i \in DOMAIN l : l[i][1] = n }
    IN  IF at = {} THEN URL_with_query(s, Query_build(l))
        ELSE LET i == CHOOSE i \in at : \A j \in at : i <= j
             IN  URL_with_query(s, Query_build(SubSeq(l, 1, i - 1) \o SubSeq(l, i + 1, Len(l))))

URL_del_query_param(s, n) == URL_with_query(s, Query_del_param(Base_query(s), n))

URL_del_query_params(s, names) == URL_with_query(s, Query_del_params(Base_query(s), names))

URL_query_list(s) == Value("list", Query_list(Base_query(s)))

\* URL_query_dict in which the first pair of a name wins.
URL_query_dict_First(s) ==
    LET l == Query_list(Base_query(s))
    IN  Value("dict", DictOf([i \in 1..Len(l) |-> l[Len(l) + 1 - i]]))

URL_query_dict(s) == Value("dict", Query_dict(Base_query(s)))

URL_query_multi_dict(s) == Value("dict", Query_multi_dict(Base_query(s)))

URL_with_fragment(s, v) == URL_new(Base_with_fragment(s, v))

URL_without_fragment(s) == URL_new(Base_without_fragment(s))

\* self.replace(...) is str.replace: the changed text comes back as a plain str.
URL_with_trailing_slash(s) ==
    Let(URL_without_query(s), LAMBDA wq :
        IF wq.kind = "error" THEN wq
        ELSE IF ~EndsWith(wq.text, <<"/">>)
        THEN Value("str", ReplaceFirst(s, wq.text, wq.text \o <<"/">>))
        ELSE Value("URL", s))

URL_without_trailing_slash(s) ==
    Let(URL_without_query(s), LAMBDA wq :
        IF wq.kind = "error" THEN wq
        ELSE IF EndsWith(wq.text, <<"/">>)
        THEN Value("str", ReplaceFirst(s, wq.text, Upto(wq.text, Len(wq.text) - 1)))
        ELSE Value("URL", s))

URL_add_subdomain(s, label) == URL_with_netloc(s, Netloc_add_subdomain(Base_netloc(s), label))

\* URL_remove_subdomain that drops the first label whatever the number of labels.
URL_remove_subdomain_NoFloor(s) ==
    URL_with_netloc(s, Netloc_with_hostname(Base_netloc(s), Join(Tail(Base_domains(s)), ".")))

URL_remove_subdomain(s) == URL_with_netloc(s, Netloc_remove_subdomain(Base_netloc(s)))

URL_with_domain(s, v, level) ==
    URL_with_netloc(s, Netloc_with_domain(Base_netloc(s), v, level))

\* ports.DEFAULT_PORTS: the default port of a scheme.
DEFAULT_PORTS ==
    (<<"h", "t", "t", "p">> :> 80)
    @@ (<<"h", "t", "t", "p", "s">> :> 443)
    @@ (<<"f", "t", "p">> :> 21)

\* The text after the ':' that follows the host in a netloc, as
\* SplitResult._hostinfo finds it: after the last '@', after a bracketed
\* host when there is one, from the first ':'.
HostinfoPort(netloc) ==
    Let(From(netloc, LastIndexOf(netloc, "@") + 1), LAMBDA hostinfo :
    Let(IndexOf(hostinfo, "["), LAMBDA br :
    Let(IF br = 0 THEN hostinfo
        ELSE Let(From(hostinfo, br + 1), LAMBDA bracketed :
             Let(IndexOf(bracketed, "]"), LAMBDA cl :
                 IF cl = 0 THEN <<>> ELSE From(bracketed, cl + 1))), LAMBDA rest :
    Let(IndexOf(rest, ":"), LAMBDA c :
        IF c = 0 THEN <<>> ELSE From(rest, c + 1)))))

\* urlparse.urlsplit(self).port: None without port text, ValueError when the
\* text is not a decimal number or the number is above 65535.
SplitPort(s) ==
    Let(HostinfoPort(urlsplit(s).netloc), LAMBDA p :
        IF p = <<>> THEN Value("None", <<>>)
        ELSE IF ~IsInt(p) THEN Failure("ValueError")
        ELSE IF ParseInt(p) > 65535 THEN Failure("ValueError")
        ELSE Value("int", IntToStr(ParseInt(p))))

\* DEFAULT_PORTS.get(scheme).
DefaultPortOf(scheme) ==
    IF scheme \in DOMAIN DEFAULT_PORTS
    THEN Value("int", IntToStr(DEFAULT_PORTS[scheme]))
    ELSE Value("None", <<>>)

URL_default_port(s) ==
    Let(SplitPort(s), LAMBDA port :
        IF port.kind # "None" THEN port ELSE DefaultPortOf(Base_scheme(s)))

\* The characters of the model outside ASCII: U+00E9, e with acute accent.
NonAscii == {"U+E9"}

IsAscii(text) == Let(text, LAMBDA s : \A i \in 1..Len(s) : s[i] \notin NonAscii)

RECURSIVE Utf8(_)
\* str.encode('utf-8'): an ASCII character is its own byte, U+00E9 is the
\* bytes C3 A9.
Utf8(text) ==
    Let(text, LAMBDA s :
        IF Len(s) = 0 THEN <<>>
        ELSE (IF s[1] = "U+E9" THEN <<"C3", "A9">> ELSE <<s[1]>>) \o Utf8(Tail(s)))

\* encodings.idna.ToASCII on the labels of the model that are not ASCII
\* (nameprep, then punycode with the prefix xn--).
IdnaTable ==
    { << <<"U+E9">>, <<"x", "n", "-", "-", "9", "c", "a">> >>,
      << <<"U+E9", "x">>, <<"x", "n", "-", "-", "x", "-", "9", "f", "a">> >>,
      << <<"u", "@", "U+E9">>, <<"x", "n", "-", "-", "u", "@", "-", "c", "j", "a">> >>,
      << <<"U+E9", ":", "8">>, <<"x", "n", "-", "-", ":", "8", "-", "9", "i", "a">> >> }

\* ToASCII of one label: an ASCII label of 1 to 63 characters is kept, an
\* empty or longer one is refused.
ToASCII(label) ==
    IF IsAscii(label)
    THEN (IF 0 < Len(label) /\ Len(label) < 64 THEN Value("str", label) ELSE Failure("UnicodeError"))
    ELSE Value("str", (CHOOSE t \in IdnaTable : t[1] = label)[2])

\* text.encode('idna'): an ASCII text is kept when no label but the last is
\* empty; otherwise each label goes through ToASCII, a final '.' being kept.
IdnaEncode(text) ==
    Let(text, LAMBDA s :
        IF s = <<>> THEN Value("str", <<>>)
        ELSE Let(Split(s, "."), LAMBDA labels :
             IF IsAscii(s)
             THEN (IF \/ \E i \in 1..(Len(labels) - 1) : ~(0 < Len(labels[i]) /\ Len(labels[i]) < 64)
                      \/ Len(labels[Len(labels)]) >= 64
                   THEN Failure("UnicodeError")
                   ELSE Value("str", s))
             ELSE Let(IF labels[Len(labels)] = <<>> THEN SubSeq(labels, 1, Len(labels) - 1) ELSE labels,
                      LAMBDA kept :
                  Let([i \in 1..Len(kept) |-> ToASCII(kept[i])], LAMBDA enc :
                      IF \E i \in 1..Len(enc) : enc[i].kind = "error"
                      THEN Failure("UnicodeError")
                      ELSE Value("str", Join([i \in 1..Len(enc) |-> enc[i].text], ".")
                                        \o (IF Len(kept) < Len(labels) THEN <<".">> ELSE <<>>))))))

\* from_iri: the netloc through the idna codec, path, query and fragment
\* through path_encode over their UTF-8 bytes, then the constructor.
URL_from_iri(iri) ==
    Let(urlsplit(iri), LAMBDA split :
    Let(IdnaEncode(split.netloc), LAMBDA netloc :
        IF netloc.kind = "error" THEN netloc
        ELSE URL_new(urlunsplit([scheme   |-> split.scheme,
                                 netloc   |-> netloc.text,
                                 path     |-> path_encode(Utf8(split.path), {"/", "%", ";"}),
                                 query    |-> path_encode(Utf8(split.query), {"=", "&", "%"}),
                                 fragment |-> path_encode(Utf8(split.fragment), {"%"})]))))

Query_add_params(q, pairs) == Query_build(Query_list(q) \o pairs)

RECURSIVE Query_set_params(_, _)
\* set_param once per supplied pair, in input order.
Query_set_params(query, list) ==
    Let(<<query, list>>, LAMBDA a :
        IF Len(a[2]) = 0 THEN a[1]
        ELSE Query_set_params(Query_set_param(a[1], a[2][1][1], a[2][1][2]), Tail(a[2])))

URL_add_query_params(s, pairs) == URL_with_query(s, Query_add_params(Base_query(s), pairs))

URL_set_query_params(s, pairs) == URL_with_query(s, Query_set_params(Base_query(s), pairs))

(* ------------------------------------------------------------------ *)
(* relative(): the cascade over the reference's components.            *)
(* ------------------------------------------------------------------ *)

\* RelativeCandidate testing the netloc of the reference before its scheme.
RelativeCandidate_NetlocFirst(s, other) ==
    IF Base_netloc(other) # <<>> THEN Base_with_scheme(other, Base_scheme(s))
    ELSE IF Base_scheme(other) # <<>> THEN other
    ELSE
    Let(Base_with_netloc(Base_with_scheme(other, Base_scheme(s)), Base_netloc(s)), LAMBDA o2 :
        IF Base_path(other) # <<>>
        THEN Base_with_path(o2, Path_relative(Base_path(s), Base_path(other)))
        ELSE
    Let(Base_with_path(o2, Base_path(s)), LAMBDA o3 :
        IF Base_query(other) # <<>> THEN o3
        ELSE Base_with_query(o3, Base_query(s))))

\* RelativeCandidate giving the base's netloc to a reference that has its own.
RelativeCandidate_NetlocOfBase(s, other) ==
    IF Base_scheme(other) # <<>> THEN other
    ELSE
    Let(Base_with_netloc(Base_with_scheme(other, Base_scheme(s)), Base_netloc(s)), LAMBDA o2 :
        IF Base_netloc(other) # <<>> THEN o2
        ELSE IF Base_path(other) # <<>>
        THEN Base_with_path(o2, Path_relative(Base_path(s), Base_path(other)))
        ELSE
    Let(Base_with_path(o2, Base_path(s)), LAMBDA o3 :
        IF Base_query(other) # <<>> THEN o3
        ELSE Base_with_query(o3, Base_query(s))))

\* RelativeCandidate giving the base's query to a reference that has a path.
RelativeCandidate_QueryOfBase(s, other) ==
    IF Base_scheme(other) # <<>> THEN other
    ELSE
    Let(Base_with_scheme(other, Base_scheme(s)), LAMBDA o1 :
        IF Base_netloc(other) # <<>> THEN o1
        ELSE
    Let(Base_with_netloc(o1, Base_netloc(s)), LAMBDA o2 :
        IF Base_path(other) # <<>>
        THEN Base_with_query(Base_with_path(o2, Path_relative(Base_path(s), Base_path(other))),
                             Base_query(s))
        ELSE
    Let(Base_with_path(o2, Base_path(s)), LAMBDA o3 :
        IF Base_query(other) # <<>> THEN o3
        ELSE Base_with_query(o3, Base_query(s)))))

\* RelativeCandidate putting the path of the reference in place of the base's
\* path without merging the two.
RelativeCandidate_PathUnmerged(s, other) ==
    IF Base_scheme(other) # <<>> THEN other
    ELSE
    Let(Base_with_scheme(other, Base_scheme(s)), LAMBDA o1 :
        IF Base_netloc(other) # <<>> THEN o1
        ELSE
    Let(Base_with_netloc(o1, Base_netloc(s)), LAMBDA o2 :
        IF Base_path(other) # <<>>
        THEN Base_with_path(o2, Base_path(other))
        ELSE
    Let(Base_with_path(o2, Base_path(s)), LAMBDA o3 :
        IF Base_query(other) # <<>> THEN o3
        ELSE Base_with_query(o3, Base_query(s)))))

\* RelativeCandidate keeping the path of a reference that has only a query.
RelativeCandidate_PathOfQueryReference(s, other) ==
    IF Base_scheme(other) # <<>> THEN other
    ELSE
    Let(Base_with_scheme(other, Base_scheme(s)), LAMBDA o1 :
        IF Base_netloc(other) # <<>> THEN o1
        ELSE
    Let(Base_with_netloc(o1, Base_netloc(s)), LAMBDA o2 :
        IF Base_path(other) # <<>>
        THEN Base_with_path(o2, Path_relative(Base_path(s), Base_path(other)))
        ELSE IF Base_query(other) # <<>> THEN o2
        ELSE Base_with_query(Base_with_path(o2, Base_path(s)), Base_query(s))))

\* RelativeCandidate leaving the query of a reference that has only a
\* fragment as it is (empty) instead of taking the base's.
RelativeCandidate_NoQueryOfBase(s, other) ==
    IF Base_scheme(other) # <<>> THEN other
    ELSE
    Let(Base_with_scheme(other, Base_scheme(s)), LAMBDA o1 :
        IF Base_netloc(other) # <<>> THEN o1
        ELSE
    Let(Base_with_netloc(o1, Base_netloc(s)), LAMBDA o2 :
        IF Base_path(other) # <<>>
        THEN Base_with_path(o2, Path_relative(Base_path(s), Base_path(other)))
        ELSE Base_with_path(o2, Base_path(s))))

\* The candidate text of branches 1 to 5; other is held as an unvalidated
\* relative reference, whose methods never validate.
RelativeCandidate(s, other) ==
    IF Base_scheme(other) # <<>> THEN other
    ELSE
    Let(Base_with_scheme(other, Base_scheme(s)), LAMBDA o1 :
        IF Base_netloc(other) # <<>> THEN o1
        ELSE
    Let(Base_with_netloc(o1, Base_netloc(s)), LAMBDA o2 :
        IF Base_path(other) # <<>>
        THEN Base_with_path(o2, Path_relative(Base_path(s), Base_path(other)))
        ELSE
    Let(Base_with_path(o2, Base_path(s)), LAMBDA o3 :
        IF Base_query(other) # <<>> THEN o3
        ELSE Base_with_query(o3, Base_query(s)))))

\* The branch of the cascade a reference takes, 1 to 6.
RelativeBranch(other) ==
    IF Base_scheme(other) # <<>> THEN 1
    ELSE IF Base_netloc(other) # <<>> THEN 2
    ELSE IF Base_path(other) # <<>> THEN 3
    ELSE IF Base_query(other) # <<>> THEN 4
    ELSE IF Base_fragment(other) # <<>> THEN 5
    ELSE 6

\* urlblocks: every candidate is wrapped in URL(...).
URL_relative(s, other) ==
    IF RelativeBranch(other) = 6 THEN URL_without_fragment(s)
    ELSE URL_new(RelativeCandidate(s, other))

\* URLString_relative that does not carry the query of the base over to a
\* fragment-only reference.
URLString_relative_NoQueryOfBase(s, other) ==
    IF RelativeBranch(other) = 6 THEN URL_without_fragment(s)
    ELSE Value("_RelatedURLObject", RelativeCandidate_NoQueryOfBase(s, other))

\* urlstring: the candidate is returned as it is, a _RelatedURLObject.
URLString_relative(s, other) ==
    IF RelativeBranch(other) = 6 THEN URL_without_fragment(s)
    ELSE Value("_RelatedURLObject", RelativeCandidate(s, other))

(* ------------------------------------------------------------------ *)
(* Inputs.                                                             *)
(* ------------------------------------------------------------------ *)

\* Texts handed to the constructor.
Inputs ==
    { <<>>,
      <<"g", ".", "c">>,
      <<"/", "/", "g", ".", "c">>,
      <<"w", "s", ":">>,
      <<"w", "s", ":", "/", "/", "c">>,
      <<"w", "s", ":", "/", "/", "/", "a">>,
      <<"h", "t", "t", "p", ":", "/", "/", "c", "o", "m">>,
      <<"W", "S", ":", "/", "/", "g", ".", "c">>,
      <<"x", ":", "/", "/", "g", ".", "c", "/", "a">>,
      <<"w", "s", ":", "/", "/", "g", ".", "c", "/", "a", "/", "?", "a", "=", "b", "&", "a", "=", "c">>,
      <<"w", "s", ":", "/", "/", "u", ":", "p", "@", "w", ".", "g", ".", "c", ":", "8", "/", "a", "/", "b", "?", "a", "=", "b", "#", "f">>,
      <<"h", "t", "t", "p", ":", "/", "/", "g", "o", "o", "g", "l", "e", ".", "c", "o", "m">> }

\* Arguments of the first derivation call after the construction.
SchemeArgs == { <<>>, <<"x">>, <<"w", "s">>, <<"W", "s">>, <<"1", "x">> }

NetlocArgs == { <<>>, <<"c">>, <<"w", ".", "g", ".", "c">>, <<"u", ":", "p", "@", "g", ".", "c", ":", "8">>, <<"g", ".", "c", "/", "a">>, <<"g", ".", "c", "?", "b">> }

UserArgs == { <<"u">>, <<"u", "@", "v">>, <<"u", ":", "v">> }

PasswordArgs == { <<"p">>, <<"p", ":", "q">>, <<"p", "/", "q">> }

HostArgs == { <<>>, <<"c">>, <<"d", ".", "c">>, <<"w", ".", "g", ".", "c">>, <<"g", ".", "c", ":", "8">>, <<"a", "@", "g", ".", "c">> }

PortArgs == {0, 8, 80}

PathArgs == { <<>>, <<"/">>, <<"/", "a", "/", "b">>, <<"b", "/", "a">>, <<"/", "/", "x">>, <<"/", "a", "?", "b">>, <<"/", "a", "#", "b">> }

SegmentArgs == { <<"a">>, <<"b">> }

PartialArgs == { <<"a", "/", "b">>, <<"c", "/">> }

QueryArgs == { <<>>, <<"a", "=", "b", "&", "a", "=", "c">>, <<"c", "=", "d">>, <<"a", "?", "b">>, <<"a", "#", "f">> }

\* <<name, value>> pairs handed to the query parameter calls.
ParamArgs == { <<<<"a">>, <<"z">>>>, <<<<"c">>, <<"b">>>> }

NameArgs == { <<"a">>, <<"c">> }

FragmentArgs == { <<>>, <<"f">>, <<"a", "#", "b">>, <<"a", "/", "b">>, <<"%", "2", "3">> }

LabelArgs == { <<"w">>, <<"d">> }

LevelArgs == {DOMAIN_LEVEL_TOP, DOMAIN_LEVEL_SECOND}

\* Arguments of the calls chained after the first one.
ChainSchemeArgs == { <<"x">> }

ChainNetlocArgs == { <<>>, <<"u", ":", "p", "@", "g", ".", "c", ":", "8">> }

ChainUserArgs == { <<"u">> }

ChainPasswordArgs == { <<"p">> }

ChainHostArgs == { <<"w", ".", "g", ".", "c">> }

ChainPortArgs == {80}

ChainPathArgs == { <<>>, <<"b", "/", "a">> }

ChainSegmentArgs == { <<"a">> }

ChainPartialArgs == { <<"a", "/", "b">> }

ChainQueryArgs == { <<>>, <<"a", "=", "b", "&", "a", "=", "c">> }

ChainFragmentArgs == { <<"a", "#", "b">> }

ChainLabelArgs == { <<"w">> }

ChainParamArgs == { <<<<"a">>, <<"z">>>> }

ChainNameArgs == { <<"a">> }

(* ------------------------------------------------------------------ *)
(* The state machine: a construction, then derivation calls.  self is  *)
(* the receiver of the last call, out what the call returned.         *)
(* ------------------------------------------------------------------ *)

Init ==
    /\ self = <<>>
    /\ op = "none"
    /\ arg = <<>>
    /\ out = [kind |-> "none", text |-> <<>>, err |-> "ok"]
    /\ steps = 0

\* The URL the caller holds: the last value returned when it is a URL, else
\* the receiver of the failed (or str-returning) call.
Cur == IF out.kind = "URL" THEN out.text ELSE self

Construct ==
    /\ op = "none"
    /\ \E s \in Inputs :
        /\ self' = <<>>
        /\ op' = "URL"
        /\ arg' = <<s>>
        /\ out' = URL_new(s)
        /\ steps' = 0

\* The argument set of a call: wide for the first call, narrow for chained ones.
Args(first, chained) == IF steps = 0 THEN first ELSE chained

\* A derivation call on the held URL.
Call(name, a, result) ==
    /\ Cur # <<>>
    /\ steps < MaxSteps
    /\ self' = Cur
    /\ op' = name
    /\ arg' = a
    /\ out' = result
    /\ steps' = steps + 1

\* Reading a property of the held URL.
Read(name, result) ==
    /\ Cur # <<>>
    /\ self' = Cur
    /\ op' = name
    /\ arg' = <<>>
    /\ out' = result
    /\ UNCHANGED steps

with_scheme == \E v \in Args(SchemeArgs, ChainSchemeArgs) : Call("with_scheme", <<v>>, URL_with_scheme(Cur, v))

with_netloc == \E v \in Args(NetlocArgs, ChainNetlocArgs) : Call("with_netloc", <<v>>, URL_with_netloc(Cur, v))

with_username == \E v \in Args(UserArgs, ChainUserArgs) : Call("with_username", <<v>>, URL_with_username(Cur, v))

without_username == Call("without_username", <<>>, URL_without_username(Cur))

with_password == \E v \in Args(PasswordArgs, ChainPasswordArgs) : Call("with_password", <<v>>, URL_with_password(Cur, v))

without_password == Call("without_password", <<>>, URL_without_password(Cur))

with_hostname == \E v \in Args(HostArgs, ChainHostArgs) : Call("with_hostname", <<v>>, URL_with_hostname(Cur, v))

with_port == \E n \in Args(PortArgs, ChainPortArgs) : Call("with_port", <<n>>, URL_with_port(Cur, n))

without_port == Call("without_port", <<>>, URL_without_port(Cur))

with_auth ==
    \E u \in ChainUserArgs : \E p \in ChainPasswordArgs \cup {None} :
        Call("with_auth", <<u, p>>, URL_with_auth(Cur, u, p))

without_auth == Call("without_auth", <<>>, URL_without_auth(Cur))

with_path == \E v \in Args(PathArgs, ChainPathArgs) : Call("with_path", <<v>>, URL_with_path(Cur, v))

root == Call("root", <<>>, URL_root(Cur))

parent == Call("parent", <<>>, URL_parent(Cur))

add_path_segment ==
    \E v \in Args(SegmentArgs, ChainSegmentArgs) : Call("add_path_segment", <<v>>, URL_add_path_segment(Cur, v))

add_path == \E v \in Args(PartialArgs, ChainPartialArgs) : Call("add_path", <<v>>, URL_add_path(Cur, v))

with_query == \E v \in Args(QueryArgs, ChainQueryArgs) : Call("with_query", <<v>>, URL_with_query(Cur, v))

without_query == Call("without_query", <<>>, URL_without_query(Cur))

add_query_param ==
    \E pr \in Args(ParamArgs, ChainParamArgs) : Call("add_query_param", pr, URL_add_query_param(Cur, pr[1], pr[2]))

add_query_params ==
    \E pr \in Args(ParamArgs, ChainParamArgs) :
        Call("add_query_params", <<pr, <<pr[2], pr[1]>>>>,
             URL_add_query_params(Cur, <<pr, <<pr[2], pr[1]>>>>))

set_query_param ==
    \E pr \in Args(ParamArgs, ChainParamArgs) : Call("set_query_param", pr, URL_set_query_param(Cur, pr[1], pr[2]))

set_query_params ==
    \E pr \in Args(ParamArgs, ChainParamArgs) :
        Call("set_query_params", <<pr, <<pr[2], pr[1]>>>>,
             URL_set_query_params(Cur, <<pr, <<pr[2], pr[1]>>>>))

del_query_param == \E n \in Args(NameArgs, ChainNameArgs) : Call("del_query_param", <<n>>, URL_del_query_param(Cur, n))

del_query_params == Call("del_query_params", <<NameArgs>>, URL_del_query_params(Cur, NameArgs))

with_fragment == \E v \in Args(FragmentArgs, ChainFragmentArgs) : Call("with_fragment", <<v>>, URL_with_fragment(Cur, v))

without_fragment == Call("without_fragment", <<>>, URL_without_fragment(Cur))

with_trailing_slash == Call("with_trailing_slash", <<>>, URL_with_trailing_slash(Cur))

without_trailing_slash == Call("without_trailing_slash", <<>>, URL_without_trailing_slash(Cur))

add_subdomain == \E v \in Args(LabelArgs, ChainLabelArgs) : Call("add_subdomain", <<v>>, URL_add_subdomain(Cur, v))

remove_subdomain == Call("remove_subdomain", <<>>, URL_remove_subdomain(Cur))

with_domain ==
    \E v \in ChainLabelArgs : \E l \in LevelArgs :
        Call("with_domain", <<v, l>>, URL_with_domain(Cur, v, l))

Next ==
    \/ Construct
    \/ with_scheme \/ with_netloc
    \/ with_username \/ without_username \/ with_password \/ without_password
    \/ with_hostname \/ with_port \/ without_port \/ with_auth \/ without_auth
    \/ with_path \/ root \/ parent \/ add_path_segment \/ add_path
    \/ with_query \/ without_query
    \/ add_query_param \/ add_query_params \/ set_query_param \/ set_query_params
    \/ del_query_param \/ del_query_params
    \/ with_fragment \/ without_fragment
    \/ with_trailing_slash \/ without_trailing_slash
    \/ add_subdomain \/ remove_subdomain \/ with_domain

Spec == Init /\ [][Next]_vars

(* ------------------------------------------------------------------ *)
(* Relative resolution: a base is constructed, then references are     *)
(* resolved against it by urlblocks' URL.relative and by urlstring's   *)
(* URLString.relative.                                                 *)
(* ------------------------------------------------------------------ *)

\* Texts handed to the constructor as bases.
BaseInputs ==
    { <<>>,
      <<"g", ".", "c">>,
      <<"w", "s", ":", "/", "/", "g", ".", "c">>,
      <<"w", "s", ":", "/", "/", "g", ".", "c", "/">>,
      <<"W", "S", ":", "/", "/", "g", ".", "c", "/", "a">>,
      <<"x", ":", "/", "/", "g", ".", "c", "/", "a", "/", "b", "?", "q", "=", "b", "#", "f">>,
      <<"w", "s", ":", "/", "/", "u", ":", "p", "@", "w", ".", "g", ".", "c", ":", "8", "/", "a", "/", "b", "/", "?", "a", "=", "b", "#", "f">>,
      <<"h", "t", "t", "p", ":", "/", "/", "w", "w", "w", ".", "g", "o", "o", "g", "l", "e", ".", "c", "o", "m", "/", "a", "/", "b", "/", "c", "/">> }

\* Reference texts.
RefArgs ==
    { <<>>,
      <<"#">>,
      <<"#", "f">>,
      <<"#", "g">>,
      <<"?">>,
      <<"?", "q">>,
      <<"?", "q", "#", "f">>,
      <<"a">>,
      <<"a", "?", "q", "#", "g">>,
      <<".", "/">>,
      <<".", ".">>,
      <<".", ".", "/", "d">>,
      <<".", ".", "/", ".", ".", "/", "d">>,
      <<".", ".", "/", "d", "/", "e", "/", "f">>,
      <<"b", "/", ".", "/", "c", "/">>,
      <<"a", "/", "/", "b">>,
      <<"/", "x">>,
      <<"/", "x", "/", ".", ".", "/", "y", "?", "q">>,
      <<"/", "/", "c">>,
      <<"/", "/", "n", ".", "c">>,
      <<"/", "/", "n", ".", "c", "/", "p", "?", "q", "#", "f">>,
      <<"y", ":">>,
      <<"y", ":", "/", "/", "n", ".", "c", "/", "p">>,
      <<"Y", ":", "/", "/", "n", ".", "c", "#", "f">> }

\* References resolved against the result of an earlier resolution.
ChainRefArgs ==
    { <<>>,
      <<"#", "f">>,
      <<"?", "q">>,
      <<"a">>,
      <<".", "/">>,
      <<".", ".", "/", "d">>,
      <<"/", "x", "/", ".", ".", "/", "y", "?", "q">>,
      <<"/", "/", "n", ".", "c">>,
      <<"y", ":", "/", "/", "n", ".", "c", "/", "p">> }

ConstructBase ==
    /\ op = "none"
    /\ \E s \in BaseInputs :
        /\ self' = <<>>
        /\ op' = "URL"
        /\ arg' = <<s>>
        /\ out' = URL_new(s)
        /\ steps' = 0

relative == \E other \in Args(RefArgs, ChainRefArgs) : Call("relative", <<other>>, URL_relative(Cur, other))

relativeS == \E other \in Args(RefArgs, ChainRefArgs) : Call("relativeS", <<other>>, URLString_relative(Cur, other))

NextRel == ConstructBase \/ relative \/ relativeS

SpecRel == Init /\ [][NextRel]_vars

(* ------------------------------------------------------------------ *)
(* Trailing slashes: a URL is constructed, with_trailing_slash and     *)
(* without_trailing_slash are called on it, and called again on the    *)
(* value the first call returned.                                      *)
(* ------------------------------------------------------------------ *)

SlashSchemes == { <<"w", "s">>, <<"W", "S">> }

SlashNetlocs == { <<"g", ".", "c">>, <<"g", ".", "c", ":", "8">> }

SlashPaths == { <<>>, <<"/">>, <<"/", "a">>, <<"/", "a", "/">>, <<"/", "a", "/", "/">> }

SlashQueries == { <<>>, <<"?", "a", "=", "1">> }

SlashFragments == { <<>>, <<"#", "f">>, <<"#", "f", "/">> }

\* Texts handed to the constructor: scheme://netloc, then a path, a query
\* and a fragment, each present or not.
SlashInputs ==
    { sc \o <<":", "/", "/">> \o n \o p \o q \o f :
        sc \in SlashSchemes, n \in SlashNetlocs, p \in SlashPaths,
        q \in SlashQueries, f \in SlashFragments }

ConstructSlash ==
    /\ op = "none"
    /\ \E s \in SlashInputs :
        /\ self' = <<>>
        /\ op' = "URL"
        /\ arg' = <<s>>
        /\ out' = URL_new(s)
        /\ steps' = 0

\* A method of URL called on a returned value: a plain str has no such
\* attribute.
OnReturned(v, Method(_)) ==
    IF v.kind = "URL" THEN Method(v.text) ELSE Failure("AttributeError")

\* The same method called on what the last call returned.
Again(name, Method(_)) ==
    /\ op = name
    /\ out.kind # "error"
    /\ steps < MaxSteps
    /\ self' = out.text
    /\ op' = name \o "_again"
    /\ arg' = <<>>
    /\ out' = OnReturned(out, Method)
    /\ steps' = steps + 1

with_trailing_slash_again == Again("with_trailing_slash", URL_with_trailing_slash)

without_trailing_slash_again == Again("without_trailing_slash", URL_without_trailing_slash)

NextSlash ==
    \/ ConstructSlash
    \/ with_trailing_slash \/ without_trailing_slash
    \/ with_trailing_slash_again \/ without_trailing_slash_again

SpecSlash == Init /\ [][NextSlash]_vars

(* ------------------------------------------------------------------ *)
(* Ports: a URL is constructed, its scheme and port are replaced, and  *)
(* default_port is read.                                               *)
(* ------------------------------------------------------------------ *)

PortSchemes == { <<"h", "t", "t", "p">>, <<"h", "t", "t", "p", "s">>, <<"f", "t", "p">>, <<"w", "s">>, <<"H", "T", "T", "P">> }

PortNetlocs ==
    { <<"g", ".", "c">>,
      <<"g", ".", "c", ":", "8">>,
      <<"g", ".", "c", ":", "0", "8">>,
      <<"g", ".", "c", ":">>,
      <<"g", ".", "c", ":", "x">>,
      <<"g", ".", "c", ":", "x", ":", "8">>,
      <<"u", ":", "9", "@", "g", ".", "c">>,
      <<"u", ":", "9", "@", "g", ".", "c", ":", "8">> }

PortTails == { <<>>, <<"/", "a", ":", "9">>, <<"?", "a", "=", ":", "9">> }

PortInputs ==
    { sc \o <<":", "/", "/">> \o n \o t : sc \in PortSchemes, n \in PortNetlocs, t \in PortTails }

WidePortArgs == {0, 8, 126, 65535, 65536}

ConstructPort ==
    /\ op = "none"
    /\ \E s \in PortInputs :
        /\ self' = <<>>
        /\ op' = "URL"
        /\ arg' = <<s>>
        /\ out' = URL_new(s)
        /\ steps' = 0

with_port_any == \E n \in WidePortArgs : Call("with_port", <<n>>, URL_with_port(Cur, n))

with_scheme_any == \E v \in PortSchemes : Call("with_scheme", <<v>>, URL_with_scheme(Cur, v))

default_port == Read("default_port", URL_default_port(Cur))

NextPort == ConstructPort \/ with_port_any \/ with_scheme_any \/ without_port \/ default_port

SpecPort == Init /\ [][NextPort]_vars

(* ------------------------------------------------------------------ *)
(* Query parameters: a URL is constructed, parameters are added, set   *)
(* and deleted, and the views of the query are read.                   *)
(* ------------------------------------------------------------------ *)

QuerySchemes == { <<"w", "s">>, <<"W", "S">> }

QueryParts ==
    { <<>>,
      <<"?">>,
      <<"?", "a", "=", "b", "&", "c", "=", "d">>,
      <<"?", "a", "=", "b", "&", "a", "=", "c">>,
      <<"?", "c", "=", "d", "&", "a", "=", "b", "&", "c", "=", "e">>,
      <<"?", "c", "=", "d", "&", "d", "=", "c">>,
      <<"?", "a">>,
      <<"?", "c", "=", "d", "&">>,
      <<"?", "c", "=", "%", "2", "6", "&", "z", "=", "a", "=", "b">>,
      <<"?", "c", "=", ":">> }

QueryTails == { <<>>, <<"#", "f">> }

QueryInputs ==
    { sc \o <<":", "/", "/", "g", ".", "c", "/", "p">> \o q \o t :
        sc \in QuerySchemes, q \in QueryParts, t \in QueryTails }

ConstructQuery ==
    /\ op = "none"
    /\ \E s \in QueryInputs :
        /\ self' = <<>>
        /\ op' = "URL"
        /\ arg' = <<s>>
        /\ out' = URL_new(s)
        /\ steps' = 0

query_list == Read("query_list", URL_query_list(Cur))

query_dict == Read("query_dict", URL_query_dict(Cur))

query_multi_dict == Read("query_multi_dict", URL_query_multi_dict(Cur))

NextQuery ==
    \/ ConstructQuery
    \/ add_query_param \/ add_query_params
    \/ set_query_param \/ set_query_params
    \/ del_query_param \/ del_query_params
    \/ query_list \/ query_dict \/ query_multi_dict

SpecQuery == Init /\ [][NextQuery]_vars

(* ------------------------------------------------------------------ *)
(* Subdomains: a URL is constructed, then labels are added to and      *)
(* removed from its host.                                              *)
(* ------------------------------------------------------------------ *)

SubSchemes == { <<"w", "s">>, <<"W", "S">> }

SubNetlocs ==
    { <<"g", ".", "c">>,
      <<"w", ".", "g", ".", "c">>,
      <<"d", ".", "w", ".", "g", ".", "c">>,
      <<"a", ".", ".", "c">>,
      <<"g", ".", "c", ":", "8">>,
      <<"u", ":", "p", "@", "w", ".", "g", ".", "c", ":", "8">> }

SubTails == { <<>>, <<"/", "a", ".", "b", "?", "c", "=", "d", ".", "e", "#", "f">> }

SubInputs ==
    { sc \o <<":", "/", "/">> \o n \o t : sc \in SubSchemes, n \in SubNetlocs, t \in SubTails }

ConstructSub ==
    /\ op = "none"
    /\ \E s \in SubInputs :
        /\ self' = <<>>
        /\ op' = "URL"
        /\ arg' = <<s>>
        /\ out' = URL_new(s)
        /\ steps' = 0

NextSub == ConstructSub \/ add_subdomain \/ remove_subdomain

SpecSub == Init /\ [][NextSub]_vars

(* ------------------------------------------------------------------ *)
(* from_iri: a URL is made from a text that may hold characters        *)
(* outside ASCII.                                                      *)
(* ------------------------------------------------------------------ *)

IriHeads == { <<"h", "t", "t", "p", ":", "/", "/">>, <<"H", "T", "T", "P", ":", "/", "/">>, <<"/", "/">> }

IriNetlocs ==
    { <<"g", ".", "c">>,
      <<"U+E9", ".", "c">>,
      <<"U+E9", "x", ".", "c">>,
      <<"g", ".", "U+E9">>,
      <<"G", ".", "U+E9">>,
      <<"u", "@", "U+E9", ".", "c">>,
      <<"u", "@", "g", ".", "U+E9">>,
      <<"U+E9", ".", "c", ":", "8">>,
      <<"g", ".", "U+E9", ":", "8">>,
      <<"a", ".", ".", "c">>,
      <<"U+E9">> }

IriPaths ==
    { <<>>, <<"/", "a">>, <<"/", "U+E9">>, <<"/", "a", " ", "b", ";", "c">>,
      <<"/", "%", "2", "0", "U+E9">>, <<"/", "a", "%">> }

IriQueries == { <<>>, <<"?", "a", "=", "U+E9", "&", "b">>, <<"?", "a", "=", " ", "%", "2", "6", ":">> }

IriFragments == { <<>>, <<"#", "U+E9">>, <<"#", "a", "/", "b", "%", "2", "3">>, <<"#", "a", "#", "b">> }

IriInputs ==
    { h \o n \o p \o q \o f :
        h \in IriHeads, n \in IriNetlocs, p \in IriPaths, q \in IriQueries, f \in IriFragments }

from_iri ==
    /\ op = "none"
    /\ \E iri \in IriInputs :
        /\ self' = <<>>
        /\ op' = "from_iri"
        /\ arg' = <<iri>>
        /\ out' = URL_from_iri(iri)
        /\ steps' = 0

NextIri == from_iri

SpecIri == Init /\ [][NextIri]_vars

(* ------------------------------------------------------------------ *)
(* Properties.                                                         *)
(* ------------------------------------------------------------------ *)

HttpCom == <<"h", "t", "t", "p", ":", "/", "/", "c", "o", "m">>

HttpGoogleCom == <<"h", "t", "t", "p", ":", "/", "/", "g", "o", "o", "g", "l", "e", ".", "c", "o", "m">>

ConstructionErrors == {"IsEmpty", "SchemeDoesNotExist", "HostnameDoesNotExist"}

\* C1: constructing a URL from s succeeds exactly when s is non-empty, has a
\* non-empty scheme and a non-empty hostname of at least 2 dot-separated
\* labels; otherwise no value is returned and the error is that of the first
\* failing check (empty, scheme, hostname).  "http://com" fails on the
\* hostname and "http://google.com" succeeds.
C1_ConstructionChecks ==
    op = "URL" =>
        LET s        == arg[1]
            c        == urlsplit(s)
            host     == NetlocParse(c.netloc).hostname
            labels   == IF host = <<>> THEN 0 ELSE Len(Split(host, "."))
            accepted == s # <<>> /\ c.scheme # <<>> /\ host # <<>> /\ labels >= 2
        IN  /\ (out.kind = "URL") <=> accepted
            /\ ~accepted =>
                /\ out.kind = "error"
                /\ out.text = <<>>
                /\ out.err = IF s = <<>> THEN "IsEmpty"
                             ELSE IF c.scheme = <<>> THEN "SchemeDoesNotExist"
                             ELSE "HostnameDoesNotExist"
            /\ s = HttpCom => out.err = "HostnameDoesNotExist"
            /\ s = HttpGoogleCom => out.kind = "URL"

\* "http://com" was handed to the constructor and refused for its hostname.
C1_Witness == op = "URL" /\ arg[1] = HttpCom /\ out.err = "HostnameDoesNotExist"

C3_RelativeReturnsValidated ==
    op \in {"relative", "relativeS"} /\ out.kind # "error" => URL_check(out.text) = "ok"

(* ------------------------------------------------------------------ *)
(* Component replacement: what a with_ / without_ call leaves alone    *)
(* and what reading the replaced component gives back.                 *)
(* ------------------------------------------------------------------ *)

Components == {"scheme", "netloc", "path", "query", "fragment"}

\* The calls that replace one of the five components directly.
FrameOps ==
    {"with_scheme", "with_netloc", "with_path", "with_query", "with_fragment",
     "without_query", "without_fragment"}

\* The component a call of FrameOps replaces.
Replaced(o) ==
    CASE o = "with_scheme" -> "scheme"
      [] o = "with_netloc" -> "netloc"
      [] o = "with_path" -> "path"
      [] o \in {"with_query", "without_query"} -> "query"
      [] o \in {"with_fragment", "without_fragment"} -> "fragment"

\* The components of after other than the replaced one are those of before.
OthersKept(o, before, after) ==
    Let(<<urlsplit(before), urlsplit(after)>>, LAMBDA c :
        \A f \in Components \ {Replaced(o)} : c[1][f] = c[2][f])

NoneOf(v, chars) == \A i \in 1..Len(v) : v[i] \notin chars

\* The value stays inside the component it is written to: it has none of
\* the characters that end that component in the text of a URL.
Fits(component, v) ==
    CASE component = "scheme" -> \A i \in 1..Len(v) : v[i] \in SchemeChars
      [] component = "netloc" -> NoneOf(v, {"/", "?", "#"})
      [] component = "path" -> NoneOf(v, {"?", "#"})
      [] component = "query" -> NoneOf(v, {"#"})
      [] component = "fragment" -> TRUE

\* C4 as stated: a successful with_scheme, with_netloc, with_path,
\* with_query, with_fragment, without_query or without_fragment call leaves
\* the four components it does not replace equal to the receiver's, for
\* every replacement value.
C4_FrameAnyValue ==
    op \in FrameOps /\ out.kind = "URL" => OthersKept(op, self, out.text)

\* C4, amended: a successful with_scheme, with_netloc, with_path, with_query,
\* with_fragment, without_query or without_fragment call leaves the four
\* components it does not replace equal to the receiver's, when the
\* replacement value has none of the characters that end its component
\* (a scheme made of scheme characters, a netloc without '/', '?', '#',
\* a path without '?', '#', a query without '#', any fragment).
C4_FrameFittingValue ==
    op \in FrameOps /\ out.kind = "URL" /\ (arg # <<>> => Fits(Replaced(op), arg[1]))
        => OthersKept(op, self, out.text)

\* with_path replaced the path of a URL that has a query and a fragment.
C4_Witness ==
    /\ op = "with_path" /\ out.kind = "URL"
    /\ arg[1] = <<"/">>
    /\ Base_query(self) # <<>> /\ Base_fragment(self) # <<>>
    /\ Base_path(out.text) # Base_path(self)

\* The calls with_X of the nine readable components X.
InverseOps ==
    {"with_scheme", "with_netloc", "with_username", "with_password", "with_hostname",
     "with_port", "with_path", "with_query", "with_fragment"}

\* Reading from s the component that call o writes.
ComponentRead(o, s) ==
    CASE o = "with_scheme" -> Base_scheme(s)
      [] o = "with_netloc" -> Base_netloc(s)
      [] o = "with_username" -> Base_username(s)
      [] o = "with_password" -> Base_password(s)
      [] o = "with_hostname" -> Base_hostname(s)
      [] o = "with_port" -> Base_port(s)
      [] o = "with_path" -> Base_path(s)
      [] o = "with_query" -> Base_query(s)
      [] o = "with_fragment" -> Base_fragment(s)

\* The values that are read back as written.
ReadBack(o, receiver, v) ==
    CASE o = "with_scheme" -> Fits("scheme", v) /\ Lower(v) = v
      [] o = "with_netloc" -> Fits("netloc", v)
      [] o = "with_username" -> NoneOf(v, {":", "/", "?", "#"})
      [] o = "with_password" -> Base_username(receiver) # None /\ NoneOf(v, {"/", "?", "#"})
      [] o = "with_hostname" -> NoneOf(v, {"@", ":", "/", "?", "#"})
      [] o = "with_port" -> v >= 0
      [] o = "with_path" -> (v = <<>> \/ v[1] = "/") /\ Fits("path", v)
      [] o = "with_query" -> Fits("query", v)
      [] o = "with_fragment" -> TRUE

\* C5 as stated: whenever with_X(v) returns a URL, reading X from it gives v,
\* for X among scheme, netloc, username, password, hostname, port, path,
\* query and fragment and for every value v.
C5_InverseAnyValue ==
    op \in InverseOps /\ out.kind = "URL" => ComponentRead(op, out.text) = arg[1]

\* C5, amended: whenever with_X(v) returns a URL, reading X from it gives v,
\* provided v is a value of that component as the text of a URL can hold it:
\* a lower-case scheme, a netloc without '/', '?', '#', a username without
\* ':', '/', '?', '#', a password without '/', '?', '#' written to a URL
\* that has a username, a hostname without '@', ':', '/', '?', '#', a port
\* that is not negative, a path that is empty or starts with '/' and has no
\* '?', '#', a query without '#', any fragment.
C5_InverseReadBack ==
    op \in InverseOps /\ out.kind = "URL" /\ ReadBack(op, self, arg[1])
        => ComponentRead(op, out.text) = arg[1]

\* with_fragment wrote a fragment that holds an escape and it was read back.
C5_Witness ==
    /\ op = "with_fragment" /\ out.kind = "URL"
    /\ arg[1] = <<"%", "2", "3">>
    /\ Base_fragment(out.text) = arg[1]

(* ------------------------------------------------------------------ *)
(* relative(): what each branch of the cascade returns.                *)
(* ------------------------------------------------------------------ *)

RelativeOps == {"relative", "relativeS"}

\* A reference on branch b was resolved and a value came back.
Resolved(b) == op \in RelativeOps /\ RelativeBranch(arg[1]) = b /\ out.kind # "error"

\* C6: relative, branch 1: a reference with a non-empty scheme comes back
\* as it is, the same text, whatever the base and whatever other components
\* the reference has; the only other outcome is urlblocks refusing a
\* reference that fails the construction checks, with the error of that check.
C6_Branch1ReturnsOther ==
    op \in RelativeOps /\ RelativeBranch(arg[1]) = 1 =>
        /\ out.kind # "error" => out.text = arg[1]
        /\ out.kind = "error" => op = "relative" /\ out.err = URL_check(arg[1])

\* A reference with an upper-case scheme and a fragment was resolved against
\* a base with another scheme, host, path and query.
C6_Witness ==
    /\ Resolved(1) /\ op = "relative"
    /\ arg[1] = <<"Y", ":", "/", "/", "n", ".", "c", "#", "f">>
    /\ Base_scheme(self) = <<"x">> /\ Base_query(self) # <<>>
    /\ out.text = arg[1]

\* The path the joiner writes for a merged path: '/' is put before a path
\* that does not start with it.
JoinedPath(p) == Let(p, LAMBDA m : IF m # <<>> /\ m[1] # "/" THEN <<"/">> \o m ELSE m)

\* C7 as stated: relative, branch 3: for a reference with no scheme, no
\* netloc and a non-empty path, the result has the base's scheme and netloc,
\* the path PathModel.relative(base.path, other.path), and the reference's
\* query and fragment.
C7_Branch3PathIsMerge ==
    Resolved(3) =>
        urlsplit(out.text) =
            [scheme   |-> Base_scheme(self),
             netloc   |-> Base_netloc(self),
             path     |-> Path_relative(Base_path(self), Base_path(arg[1])),
             query    |-> Base_query(arg[1]),
             fragment |-> urlsplit(arg[1]).fragment]

\* C7, amended: relative, branch 3: for a reference with no scheme, no netloc
\* and a non-empty path, a value is returned; it has the base's scheme and
\* netloc, the reference's query and fragment (never the base's), and as path
\* PathModel.relative(base.path, other.path) with '/' put before it when it
\* does not start with '/' (the base has an empty path).
C7_Branch3PathIsJoinedMerge ==
    op \in RelativeOps /\ RelativeBranch(arg[1]) = 3 =>
        /\ out.kind # "error"
        /\ urlsplit(out.text) =
            [scheme   |-> Base_scheme(self),
             netloc   |-> Base_netloc(self),
             path     |-> JoinedPath(Path_relative(Base_path(self), Base_path(arg[1]))),
             query    |-> Base_query(arg[1]),
             fragment |-> urlsplit(arg[1]).fragment]

\* A reference with a path, a query and a fragment was resolved against a
\* base that has a path, another query and another fragment.
C7_Witness ==
    /\ Resolved(3)
    /\ arg[1] = <<"a", "?", "q", "#", "g">>
    /\ Base_path(self) = <<"/", "a", "/", "b">>
    /\ Base_query(self) = <<"q", "=", "b">>
    /\ Base_path(out.text) = <<"/", "a", "/", "a">>
    /\ Base_query(out.text) = <<"q">>

DotSegments == {<<".">>, <<".", ".">>}

LastSegment(p) == Let(Split(p, "/"), LAMBDA segs : segs[Len(segs)])

GoogleABC ==
    <<"h", "t", "t", "p", ":", "/", "/", "w", "w", "w", ".", "g", "o", "o", "g", "l", "e", ".", "c", "o", "m", "/", "a", "/", "b", "/", "c", "/">>

GoogleABDEF ==
    <<"h", "t", "t", "p", ":", "/", "/", "w", "w", "w", ".", "g", "o", "o", "g", "l", "e", ".", "c", "o", "m", "/", "a", "/", "b", "/", "d", "/", "e", "/", "f">>

UpDEF == <<".", ".", "/", "d", "/", "e", "/", "f">>

\* What the claim says of the path of a resolved reference: result is the
\* path of the value returned, joined the base's directory followed by the
\* path of the reference.
PathMergeLaws(result, joined) ==
    Let(<<result, joined>>, LAMBDA p :
        /\ \A i \in 1..Len(Split(p[1], "/")) : Split(p[1], "/")[i] \notin DotSegments
        /\ LastSegment(p[2]) \in DotSegments \cup {<<>>} => EndsWith(p[1], <<"/">>)
        /\ LastSegment(p[2]) \notin DotSegments \cup {<<>>} => LastSegment(p[1]) = LastSegment(p[2])
        /\ (\A i \in 1..Len(Split(p[2], "/")) : Split(p[2], "/")[i] \notin DotSegments)
            => p[1] = JoinedPath(p[2])
        /\ self = GoogleABC /\ arg[1] = UpDEF => out.text = GoogleABDEF)

C9_Branch2SchemeOnly ==
    Resolved(2) =>
        urlsplit(out.text) = [urlsplit(arg[1]) EXCEPT !.scheme = Base_scheme(self)]

\* A reference with a netloc, a path, a query and a fragment was resolved
\* against a base with another netloc, path, query and fragment.
C9_Witness ==
    /\ Resolved(2) /\ op = "relative"
    /\ arg[1] = <<"/", "/", "n", ".", "c", "/", "p", "?", "q", "#", "f">>
    /\ Base_netloc(self) = <<"g", ".", "c">> /\ Base_query(self) # <<>>
    /\ out.text = <<"x", ":">> \o arg[1]

\* C10: relative, branch 4: for a reference with no scheme, no netloc, an
\* empty path and a non-empty query, a value is returned; it has the base's
\* scheme, netloc and path and the reference's query and fragment.
C10_Branch4QueryOnly ==
    op \in RelativeOps /\ RelativeBranch(arg[1]) = 4 =>
        /\ out.kind # "error"
        /\ urlsplit(out.text) =
            [scheme   |-> Base_scheme(self),
             netloc   |-> Base_netloc(self),
             path     |-> Base_path(self),
             query    |-> Base_query(arg[1]),
             fragment |-> urlsplit(arg[1]).fragment]

\* A reference that is a query alone was resolved against a base that has a
\* path, another query and a fragment, and the base's fragment is gone.
C10_Witness ==
    /\ Resolved(4)
    /\ arg[1] = <<"?", "q">>
    /\ Base_path(self) # <<>> /\ Base_query(self) = <<"q", "=", "b">> /\ Base_fragment(self) # <<>>
    /\ Base_query(out.text) = <<"q">> /\ Base_fragment(out.text) = <<>>

\* C11: relative, branch 5: for a reference that has only a non-empty
\* fragment (no scheme, netloc, path or query), a value is returned; it has
\* the base's scheme, netloc, path and query and the reference's fragment.
C11_Branch5FragmentOnly ==
    op \in RelativeOps /\ RelativeBranch(arg[1]) = 5 =>
        /\ out.kind # "error"
        /\ urlsplit(out.text) = [urlsplit(self) EXCEPT !.fragment = urlsplit(arg[1]).fragment]

\* A reference that is a fragment alone was resolved against a base that
\* has a path, a query and another fragment.
C11_Witness ==
    /\ Resolved(5)
    /\ arg[1] = <<"#", "g">>
    /\ Base_path(self) # <<>> /\ Base_query(self) = <<"a", "=", "b">>
    /\ Base_fragment(self) = <<"f">>
    /\ Base_query(out.text) = <<"a", "=", "b">> /\ Base_fragment(out.text) = <<"g">>

\* C12: relative, branch 6: for a reference with no scheme, netloc, path,
\* query or fragment, the result is the base with its fragment removed:
\* a URL whose scheme, netloc, path and query are the base's and whose
\* fragment is empty.
C12_Branch6DropsFragment ==
    op \in RelativeOps /\ RelativeBranch(arg[1]) = 6 =>
        /\ out.kind = "URL"
        /\ urlsplit(out.text) = [urlsplit(self) EXCEPT !.fragment = <<>>]
        /\ ~Has(out.text, "#")

\* The empty reference was resolved against a base that has a query and a
\* fragment.
C12_Witness ==
    /\ Resolved(6)
    /\ arg[1] = <<>>
    /\ Base_query(self) # <<>> /\ Base_fragment(self) # <<>>
    /\ Base_fragment(out.text) = <<>>

(* ------------------------------------------------------------------ *)
(* Trailing slashes.                                                   *)
(* ------------------------------------------------------------------ *)

\* C13: with_trailing_slash applied to what with_trailing_slash returned
\* returns a value with the same text, and so does without_trailing_slash
\* applied to what without_trailing_slash returned, for every valid URL.
C13_TrailingSlashIdempotent ==
    op \in {"with_trailing_slash_again", "without_trailing_slash_again"} =>
        out.kind # "error" /\ out.text = self

\* Position of the '?' that starts the query, 0 when the text has no query
\* separator: the first '?', unless a '#' comes before it.
QueryMark(s) ==
    Let(<<IndexOf(s, "?"), IndexOf(s, "#")>>, LAMBDA i :
        IF i[1] > 0 /\ (i[2] = 0 \/ i[1] < i[2]) THEN i[1] ELSE 0)

\* The text with one '/' put immediately before the query separator, at
\* the end when there is none.
SlashAdded(s) ==
    Let(QueryMark(s), LAMBDA q :
        IF q > 0 THEN SubSeq(s, 1, q - 1) \o <<"/">> \o From(s, q) ELSE s \o <<"/">>)

\* The text without the character immediately before the query separator,
\* the last one when there is none.
SlashRemoved(s) ==
    Let(QueryMark(s), LAMBDA q :
        IF q > 0 THEN SubSeq(s, 1, q - 2) \o From(s, q) ELSE SubSeq(s, 1, Len(s) - 1))

\* C14: with_trailing_slash on a URL whose query-stripped form does not end
\* in '/' returns the text with one '/' added immediately before the query
\* separator (at the end when there is no query) and the same query;
\* without_trailing_slash on a URL whose query-stripped form ends in '/'
\* returns the text with that '/' removed and the same query; in the other
\* cases each returns the text unchanged.
C14_TrailingSlashEdit ==
    /\ op = "with_trailing_slash" =>
        /\ out.kind # "error"
        /\ out.text = IF EndsWith(Base_without_query(self), <<"/">>) THEN self ELSE SlashAdded(self)
        /\ Base_query(out.text) = Base_query(self)
    /\ op = "without_trailing_slash" =>
        /\ out.kind # "error"
        /\ out.text = IF EndsWith(Base_without_query(self), <<"/">>) THEN SlashRemoved(self) ELSE self
        /\ Base_query(out.text) = Base_query(self)

(* ------------------------------------------------------------------ *)
(* Ports.                                                              *)
(* ------------------------------------------------------------------ *)

\* What default_port is to be: the port the port accessor reports, else the
\* entry of the scheme in DEFAULT_PORTS, else None.
ExpectedDefaultPort(s) ==
    IF Base_port(s) # NoPort THEN Value("int", IntToStr(Base_port(s)))
    ELSE DefaultPortOf(Base_scheme(s))

\* C15: default_port is the explicit port whenever the port accessor reports
\* one, otherwise the scheme's entry in the default-port table (80 for http,
\* 443 for https), otherwise None; and the URL returned by with_port(p) has
\* default_port p whatever its scheme.
C15_DefaultPort ==
    /\ op = "default_port" => out = ExpectedDefaultPort(self)
    /\ op = "with_port" /\ out.kind = "URL" =>
        URL_default_port(out.text) = Value("int", IntToStr(arg[1]))

(* ------------------------------------------------------------------ *)
(* Query parameters.                                                   *)
(* ------------------------------------------------------------------ *)

\* The pair list of the query of a URL text.
PairsOf(s) == Query_list(Base_query(s))

\* The pairs of a list whose name is not the given one, in order.
Others(pairs, name) == SelectSeq(pairs, LAMBDA pr : pr[1] # name)

RECURSIVE SetEach(_, _)
\* The list after moving each new pair to the end, one new pair at a time.
SetEach(pairs, new) ==
    IF Len(new) = 0 THEN pairs
    ELSE SetEach(Append(Others(pairs, new[1][1]), new[1]), Tail(new))

ABCD == <<"a", "=", "b", "&", "c", "=", "d">>

CDAZ == <<"c", "=", "d", "&", "a", "=", "z">>

\* C16: after set_query_param(name, value) the pair list has exactly one
\* pair named name, it is the last pair and carries the new value, and the
\* pairs of other names are those of the receiver, in the same order
\* ("a=b&c=d" with ("a", "z") gives "c=d&a=z"); set_query_params does this
\* once per supplied pair, in input order.
C16_SetParamMovesToEnd ==
    /\ op = "set_query_param" =>
        /\ out.kind = "URL"
        /\ LET before == PairsOf(self)
               after  == PairsOf(out.text)
           IN /\ Len(after) > 0
              /\ after[Len(after)] = <<arg[1], arg[2]>>
              /\ Cardinality({ i \in DOMAIN after : after[i][1] = arg[1] }) = 1
              /\ Others(after, arg[1]) = Others(before, arg[1])
        /\ Base_query(self) = ABCD /\ arg = <<<<"a">>, <<"z">>>> => Base_query(out.text) = CDAZ
    /\ op = "set_query_params" =>
        /\ out.kind = "URL"
        /\ PairsOf(out.text) = SetEach(PairsOf(self), arg)

\* A query with the name twice, around a pair of another name, has the
\* name set: one pair of the name is left, at the end.
C16_Witness ==
    /\ op = "set_query_param"
    /\ arg = <<<<"c">>, <<"b">>>>
    /\ PairsOf(self) = << <<<<"c">>, <<"d">>>>, <<<<"a">>, <<"b">>>>, <<<<"c">>, <<"e">>>> >>
    /\ PairsOf(out.text) = << <<<<"a">>, <<"b">>>>, <<<<"c">>, <<"b">>>> >>

\* The name occurs in the pair list.
Occurs(pairs, name) == \E i \in DOMAIN pairs : pairs[i][1] = name

\* The text is in the form the library writes: replacing the query by the
\* build of its own pair list gives the text back (lower-case scheme, no
\* bare '?' or '#', every pair written name=value with its escapes).
Written(s) == Base_with_query(s, Query_build(PairsOf(s))) = s

\* C17 as stated: del_query_param(name) returns the URL whose pairs are the
\* receiver's pairs of other names, in order, and when the name does not
\* occur the query and the text of the URL returned equal the receiver's,
\* for every receiver.
C17_DelParamAnyText ==
    op = "del_query_param" =>
        /\ out.kind = "URL"
        /\ PairsOf(out.text) = Others(PairsOf(self), arg[1])
        /\ ~Occurs(PairsOf(self), arg[1]) =>
            /\ Base_query(out.text) = Base_query(self)
            /\ out.text = self

\* C17: del_query_param(name) returns the URL whose pairs are the
\* receiver's pairs of other names, in order; when the name does not occur
\* the pair list is the receiver's, and the query and the text of the URL
\* returned equal the receiver's when the receiver is in written form.
C17_DelParam ==
    op = "del_query_param" =>
        /\ out.kind = "URL"
        /\ PairsOf(out.text) = Others(PairsOf(self), arg[1])
        /\ ~Occurs(PairsOf(self), arg[1]) =>
            /\ PairsOf(out.text) = PairsOf(self)
            /\ Written(self) =>
                /\ Base_query(out.text) = Base_query(self)
                /\ out.text = self

\* A name that occurs twice, around a pair of another name, is deleted.
C17_Witness ==
    /\ op = "del_query_param"
    /\ arg = <<<<"c">>>>
    /\ Written(self)
    /\ PairsOf(self) = << <<<<"c">>, <<"d">>>>, <<<<"a">>, <<"b">>>>, <<<<"c">>, <<"e">>>> >>
    /\ PairsOf(out.text) = << <<<<"a">>, <<"b">>>> >>

\* The names of a pair list.
NamesOf(pairs) == { pairs[i][1] : i \in DOMAIN pairs }

\* The values of the pairs of a name, in list order.
ValuesOf(pairs, name) ==
    LET named == SelectSeq(pairs, LAMBDA pr : pr[1] = name)
    IN  [i \in DOMAIN named |-> named[i][2]]

\* The number of '&' in a text.
Ampersands(s) == Cardinality({ i \in DOMAIN s : s[i] = "&" })

ABAC == <<"a", "=", "b", "&", "a", "=", "c">>

\* C18: query_list has one pair per '&'-separated part of the query, in
\* textual order ("a=b&c=d" gives [(a,b),(c,d)], repeated names are kept);
\* query_dict maps each name of the list to the value of its last pair;
\* query_multi_dict maps each name of the list to all its values in list
\* order ("a=b&a=c" gives {a: [b, c]} and the dict {a: c}).
C18_QueryViews ==
    /\ op = "query_list" =>
        /\ Len(out.text) = IF Base_query(self) = <<>> THEN 0 ELSE Ampersands(Base_query(self)) + 1
        /\ Base_query(self) = ABCD => out.text = << <<<<"a">>, <<"b">>>>, <<<<"c">>, <<"d">>>> >>
        /\ Base_query(self) = ABAC => out.text = << <<<<"a">>, <<"b">>>>, <<<<"a">>, <<"c">>>> >>
    /\ op = "query_dict" =>
        LET l == PairsOf(self)
        IN  /\ DOMAIN out.text = NamesOf(l)
            /\ \A n \in NamesOf(l) :
                LET last == CHOOSE i \in DOMAIN l : l[i][1] = n /\ \A j \in DOMAIN l : l[j][1] = n => j <= i
                IN  out.text[n] = l[last][2]
            /\ Base_query(self) = ABAC => out.text = (<<"a">> :> <<"c">>)
    /\ op = "query_multi_dict" =>
        LET l == PairsOf(self)
        IN  /\ DOMAIN out.text = NamesOf(l)
            /\ \A n \in NamesOf(l) : out.text[n] = ValuesOf(l, n)
            /\ Base_query(self) = ABAC => out.text = (<<"a">> :> << <<"b">>, <<"c">> >>)

\* The dict of a query in which a name has two values.
C18_Witness ==
    /\ op = "query_dict"
    /\ Base_query(self) = ABAC
    /\ out.text = (<<"a">> :> <<"c">>)

(* ------------------------------------------------------------------ *)
(* Removing the username, the password, the port.                      *)
(* ------------------------------------------------------------------ *)

WithoutOps == {"without_username", "without_password", "without_port"}

\* The four fields of the netloc of a URL text.
NetlocFields(s) == NetlocParse(Base_netloc(s))

\* C19 as stated: without_username removes the username and the password
\* and leaves host and port; without_password removes only the password;
\* without_port removes only the port; no value these calls return has a
\* password without a username, for every receiver.
C19_WithoutAnyNetloc ==
    op \in WithoutOps =>
        /\ out.kind = "URL"
        /\ LET before == NetlocFields(self)
               after  == NetlocFields(out.text)
           IN /\ op = "without_username" =>
                    after = [before EXCEPT !.username = None, !.password = None]
              /\ op = "without_password" => after = [before EXCEPT !.password = None]
              /\ op = "without_port" => after = [before EXCEPT !.port = NoPort]
              /\ after.password # None => after.username # None

\* The host text ends in ':' and digits, which a parse reads as a port.
EndsInPort(host) ==
    LET c == LastIndexOf(host, ":") IN c > 0 /\ IsInt(From(host, c + 1))

\* C19: without_username removes the username and the password and leaves
\* host and port; without_password removes only the password; without_port
\* removes only the port when the host of the receiver does not itself end
\* in ':' and digits; no value these calls return has a password without a
\* username.
C19_WithoutFrame ==
    op \in WithoutOps =>
        /\ out.kind = "URL"
        /\ LET before == NetlocFields(self)
               after  == NetlocFields(out.text)
           IN /\ op = "without_username" =>
                    after = [before EXCEPT !.username = None, !.password = None]
              /\ op = "without_password" => after = [before EXCEPT !.password = None]
              /\ op = "without_port" /\ ~EndsInPort(before.hostname) =>
                    after = [before EXCEPT !.port = NoPort]
              /\ after.password # None => after.username # None

\* The username is removed from a netloc with all four fields.
C19_Witness ==
    /\ op = "without_username"
    /\ NetlocFields(self) = [username |-> <<"u">>, password |-> <<"p">>,
                             hostname |-> <<"w", ".", "g", ".", "c">>, port |-> 8]
    /\ NetlocFields(out.text) = [username |-> None, password |-> None,
                                 hostname |-> <<"w", ".", "g", ".", "c">>, port |-> 8]

(* ------------------------------------------------------------------ *)
(* Subdomains.                                                         *)
(* ------------------------------------------------------------------ *)

SubdomainOps == {"add_subdomain", "remove_subdomain"}

\* C20 as stated: remove_subdomain drops the first label of the host when
\* at least 2 labels remain, returns the URL unchanged (the same text) on a
\* host of exactly 2 labels, and never fails; every URL that add_subdomain
\* or remove_subdomain returns has a host of at least 2 labels.
C20_SubdomainFloorSameText ==
    /\ op = "remove_subdomain" =>
        /\ out.kind = "URL"
        /\ Len(Base_domains(self)) >= 3 => Base_domains(out.text) = Tail(Base_domains(self))
        /\ Len(Base_domains(self)) = 2 => out.text = self
    /\ op \in SubdomainOps /\ out.kind = "URL" => Len(Base_domains(out.text)) >= 2

\* C20: remove_subdomain drops the first label of the host when at least 2
\* labels remain, returns a URL of the same components on a host of exactly
\* 2 labels (the same text when the receiver is written as urlunsplit
\* writes it), and never fails; every URL that add_subdomain or
\* remove_subdomain returns has a host of at least 2 labels.
C20_SubdomainFloor ==
    /\ op = "remove_subdomain" =>
        /\ out.kind = "URL"
        /\ Len(Base_domains(self)) >= 3 => Base_domains(out.text) = Tail(Base_domains(self))
        /\ Len(Base_domains(self)) = 2 =>
            /\ urlsplit(out.text) = urlsplit(self)
            /\ urlunsplit(urlsplit(self)) = self => out.text = self
    /\ op \in SubdomainOps /\ out.kind = "URL" => Len(Base_domains(out.text)) >= 2

\* remove_subdomain on a host of exactly 2 labels.
C20_Witness ==
    /\ op = "remove_subdomain"
    /\ Base_domains(self) = << <<"g">>, <<"c">> >>
    /\ urlunsplit(urlsplit(self)) = self
    /\ out.kind = "URL"
    /\ out.text = self

(* ------------------------------------------------------------------ *)
(* from_iri.                                                           *)
(* ------------------------------------------------------------------ *)

RECURSIVE Escaped(_, _)
\* The bytes with every byte that is neither unreserved nor safe written as
\* '%' and its two upper-case hex digits.
Escaped(bytes, safe) ==
    IF Len(bytes) = 0 THEN <<>>
    ELSE (IF bytes[1] \in Unreserved \cup safe THEN <<bytes[1]>>
          ELSE LET t == CHOOSE t \in HexTable : t[1] = bytes[1] IN <<"%", t[2], t[3]>>)
         \o Escaped(Tail(bytes), safe)

\* The netloc with its host, and only its host, through the idna codec.
HostEncoded(netloc) ==
    LET host == NetlocParse(netloc).hostname
        at   == LastIndexOf(netloc, "@")
        enc  == IdnaEncode(host)
    IN  IF enc.kind = "error" THEN enc
        ELSE Value("str", SubSeq(netloc, 1, at) \o enc.text \o From(netloc, at + Len(host) + 1))

\* C21: from_iri(iri) returns the validated URL put together from the split
\* components of iri with the scheme as split, the host IDNA-encoded, the
\* path, query and fragment escaped over their UTF-8 bytes with the safe
\* sets '/%;', '=&%' and '%' (a '%' is kept as it is); when the host cannot
\* be encoded or the result fails validation it returns an error.
C21_FromIri ==
    op = "from_iri" =>
        LET split    == urlsplit(arg[1])
            netloc   == HostEncoded(split.netloc)
            expected == urlunsplit([scheme   |-> split.scheme,
                                    netloc   |-> netloc.text,
                                    path     |-> Escaped(Utf8(split.path), {"/", "%", ";"}),
                                    query    |-> Escaped(Utf8(split.query), {"=", "&", "%"}),
                                    fragment |-> Escaped(Utf8(split.fragment), {"%"})])
        IN  IF netloc.kind = "error" \/ URL_check(expected) # "ok"
            THEN out.kind = "error"
            ELSE out = Value("URL", expected)

(* ------------------------------------------------------------------ *)
(* Construction keeps the text.                                        *)
(* ------------------------------------------------------------------ *)

\* C22: for every text the constructor accepts, the text of the URL it
\* returns is exactly the text given: the scheme keeps its case, a bare '?'
\* or '#' stays, nothing is escaped again.
C22_ConstructionKeepsText ==
    op = "URL" /\ out.kind = "URL" => out.text = arg[1]

\* A text that the joiner would write differently (upper-case scheme, a
\* bare '?') is accepted.
C22_Witness ==
    /\ op = "URL"
    /\ arg[1] = <<"W", "S", ":", "/", "/", "g", ".", "c", "/", "p", "?">>
    /\ urlunsplit(urlsplit(arg[1])) # arg[1]
    /\ out = Value("URL", arg[1])

(* ------------------------------------------------------------------ *)
(* Trailing slashes change only the path.                              *)
(* ------------------------------------------------------------------ *)

TrailingSlashOps == {"with_trailing_slash", "without_trailing_slash"}

\* C23: with_trailing_slash and without_trailing_slash return a text whose
\* scheme, netloc, query and fragment are those of the receiver, whatever
\* query and fragment it carries; the path of what with_trailing_slash
\* returns ends in '/', the path of what without_trailing_slash returns
\* does not.
C23_TrailingSlashFrame ==
    op \in TrailingSlashOps =>
        /\ out.kind # "error"
        /\ urlsplit(out.text) = [urlsplit(self) EXCEPT !.path = urlsplit(out.text).path]
        /\ op = "with_trailing_slash" => EndsWith(urlsplit(out.text).path, <<"/">>)
        /\ op = "without_trailing_slash" => ~EndsWith(urlsplit(out.text).path, <<"/">>)

(* ------------------------------------------------------------------ *)
(* The two implementations of relative().                              *)
(* ------------------------------------------------------------------ *)

====
